---- MODULE Spec2Model ----
(***************************************************************************)
(* caspar::executor (src/common/executor.h): one worker thread that pops   *)
(* priority_function entries from a bounded priority queue and runs them,  *)
(* and the client threads that submit, wait, yield, clear, stop and        *)
(* destroy.  The worker's call stack is explicit, because a task body may  *)
(* call back into the executor (yield, inline wait, same-thread invoke).   *)
(***************************************************************************)
EXTENDS Integers, Sequences, FiniteSets, TLC

\* ---- bounds of the model ----
MaxTasks == 3
NumClients == 1
MaxCapacity == 1

\* ---- program constants ----
DefaultCapacity == 512
lowest_priority == 0
lower_priority == 1
low_priority == 2
normal_priority == 3
high_priority == 4
higher_priority == 5

\* the priorities the modelled callers pass
Priorities == {lowest_priority, normal_priority}

W == 0
Clients == 1..NumClients
Threads == {W} \cup Clients
TaskIds == 1..MaxTasks
CapacityValues == (1..MaxCapacity) \cup {DefaultCapacity}

VARIABLES
    is_running_,        \* tbb::atomic<bool> is_running_
    capacity_,          \* capacity of execution_queue_
    execution_queue_,   \* [TaskIds -> Nat]: number of queue entries of each task
    task,               \* [TaskIds -> record]: the packaged_task / future pairs
    pc,                 \* [Threads -> position]
    arg,                \* [Threads -> task the thread's current call is about]
    stack,              \* worker call stack: frames [t, via] of running task bodies
    destroying,         \* ~executor() has been entered
    stopReturned,       \* history: some stop() call has returned
    abandoned           \* history: entries queued when is_running_ was written false

vars == <<is_running_, capacity_, execution_queue_, task, pc, arg, stack,
          destroying, stopReturned, abandoned>>

\* A task slot that no submission has used yet.
NoTask == [kind |-> "none", priority |-> 0, st |-> "free", runs |-> 0, resolved |-> 0,
           pushed |-> 0, h |-> "none", dangling |-> FALSE, res |-> "none", by |-> -1,
           snapC |-> {}, snapQ |-> {}]

\* ---- the queue (blocking_bounded_queue_adapter over concurrent_priority_queue) ----
RECURSIVE SumOver(_, _)
SumOver(f, S) == IF S = {} THEN 0
                 ELSE LET x == CHOOSE y \in S : TRUE IN f[x] + SumOver(f, S \ {x})

size == SumOver(execution_queue_, TaskIds)

InQueue == {t \in TaskIds : execution_queue_[t] > 0}

Less_Inverted(a, b) == task[a].priority > task[b].priority

\* priority_function::operator<
Less(a, b) == task[a].priority < task[b].priority

\* the entries a pop may return: those no other entry is greater than
Top == {t \in InQueue : \A u \in InQueue : ~Less(t, u)}

HasSpace == size < capacity_

Inserted(t) == [execution_queue_ EXCEPT ![t] = @ + 1]

Removed(t) == [execution_queue_ EXCEPT ![t] = @ - 1]

\* ---- threads ----
is_current(th) == th = W

Home(th) == IF th = W THEN "body" ELSE "idle"

TopFrame == stack[Len(stack)]

\* th is at a point where it can call into the executor
CanCall(th) ==
    IF th = W
    THEN pc[W] = "body" /\ task[TopFrame.t].kind = "user"
    ELSE pc[th] = "idle" /\ ~destroying

FreeIds == {t \in TaskIds : task[t].st = "free"}

NextId == CHOOSE t \in FreeIds : \A u \in FreeIds : t <= u

\* the normal-priority tasks whose begin_invoke has returned a handle
Submitted == {t \in TaskIds : task[t].kind = "user" /\ task[t].h = "valid"
                               /\ task[t].priority = normal_priority}

NewTask(k, p) == [NoTask EXCEPT !.kind = k, !.priority = p, !.st = "pending",
                                !.snapC = IF k = "wait" THEN Submitted ELSE {}]

Init ==
    /\ is_running_ = TRUE
    /\ capacity_ = DefaultCapacity
    /\ execution_queue_ = [t \in TaskIds |-> 0]
    /\ task = [t \in TaskIds |-> NoTask]
    /\ pc = [th \in Threads |-> IF th = W THEN "loop" ELSE "idle"]
    /\ arg = [th \in Threads |-> 0]
    /\ stack = <<>>
    /\ destroying = FALSE
    /\ stopReturned = FALSE
    /\ abandoned = {}

\* ---- running a task ----
\* thread th calls the packaged_task of task t, which has not started: th
\* enters the body of t
Enter(th, t, v) ==
    /\ task' = [task EXCEPT ![t].st = "started", ![t].runs = @ + 1, ![t].by = th]
    /\ stack' = Append(stack, [t |-> t, via |-> v])
    /\ pc' = [pc EXCEPT ![th] = "body"]

prio_func_Rerun(th, t, ret) == Enter(th, t, "queue")

\* thread th calls the queue entry of task t; ret is where th continues when
\* the packaged_task reports task_already_started
prio_func(th, t, ret) ==
    IF task[t].st = "pending"
    THEN Enter(th, t, "queue")
    ELSE /\ task' = [task EXCEPT ![t].dangling = (task[t].st = "started")]
         /\ pc' = [pc EXCEPT ![th] = ret]
         /\ UNCHANGED stack

\* how the function of task t may end: the lambdas of stop(), wait() and
\* ~executor() do not throw, the function of a caller of begin_invoke,
\* try_begin_invoke or invoke returns a value or throws
Outcomes(t) == IF task[t].kind \in {"user", "invoke"} THEN {"value", "error"} ELSE {"value"}

Finish_Kills(o) ==
    /\ pc[W] = "body"
    /\ LET f == TopFrame
           flips == task[f.t].kind \in {"stop", "dtor"}
       IN /\ task' = [task EXCEPT ![f.t].st = "done", ![f.t].resolved = @ + 1,
                                  ![f.t].dangling = FALSE, ![f.t].res = o]
          /\ is_running_' = (is_running_ /\ ~flips)
          /\ abandoned' = IF flips THEN abandoned \cup InQueue ELSE abandoned
          /\ stack' = SubSeq(stack, 1, Len(stack) - 1)
          /\ pc' = [pc EXCEPT ![W] = IF o = "error" THEN "exited"
                                     ELSE IF Len(stack) = 1 THEN "loop"
                                     ELSE "body"]
    /\ UNCHANGED <<capacity_, execution_queue_, arg, destroying, stopReturned>>

\* the body of the task on top of the worker's stack ends with outcome o: the
\* packaged_task stores the value or the exception in the future; a caller
\* that was waiting on it inline gets the exception rethrown by get()
Finish(o) ==
    /\ pc[W] = "body"
    /\ LET f == TopFrame
           flips == task[f.t].kind \in {"stop", "dtor"}
       IN /\ task' = [task EXCEPT ![f.t].st = "done", ![f.t].resolved = @ + 1,
                                  ![f.t].dangling = FALSE, ![f.t].res = o]
          /\ is_running_' = (is_running_ /\ ~flips)
          /\ abandoned' = IF flips THEN abandoned \cup InQueue ELSE abandoned
          /\ stack' = SubSeq(stack, 1, Len(stack) - 1)
          /\ pc' = [pc EXCEPT ![W] = IF Len(stack) = 1 THEN "loop"
                                     ELSE IF f.via = "wait" /\ o = "error" THEN "task_error"
                                     ELSE "body"]
    /\ UNCHANGED <<capacity_, execution_queue_, arg, destroying, stopReturned>>

TaskReturn ==
    /\ pc[W] = "body"
    /\ \E o \in Outcomes(TopFrame.t) : Finish(o)

\* ---- the worker loop ----
\* a loop whose condition is inverted
WorkerLoop_Inverted ==
    /\ pc[W] = "loop"
    /\ pc' = [pc EXCEPT ![W] = IF ~is_running_ THEN "pop" ELSE "exited"]
    /\ UNCHANGED <<is_running_, capacity_, execution_queue_, task, arg, stack,
                   destroying, stopReturned, abandoned>>

WorkerLoop ==
    /\ pc[W] = "loop"
    /\ pc' = [pc EXCEPT ![W] = IF is_running_ THEN "pop" ELSE "exited"]
    /\ UNCHANGED <<is_running_, capacity_, execution_queue_, task, arg, stack,
                   destroying, stopReturned, abandoned>>

\* a loop round that calls the top entry and leaves it in the channel
WorkerPop_Peek ==
    /\ pc[W] = "pop"
    /\ \E t \in Top : prio_func(W, t, "loop")
    /\ UNCHANGED <<is_running_, capacity_, execution_queue_, arg, destroying,
                   stopReturned, abandoned>>

WorkerPop ==
    /\ pc[W] = "pop"
    /\ \E t \in Top :
          /\ execution_queue_' = Removed(t)
          /\ prio_func(W, t, "loop")
    /\ UNCHANGED <<is_running_, capacity_, arg, destroying, stopReturned, abandoned>>

\* ---- submission ----
begin_invoke(th, p) ==
    /\ CanCall(th)
    /\ IF ~is_running_
       THEN /\ pc' = [pc EXCEPT ![th] = "not_running"]
            /\ UNCHANGED <<task, arg>>
       ELSE /\ FreeIds # {}
            /\ task' = [task EXCEPT ![NextId] = NewTask("user", p)]
            /\ pc' = [pc EXCEPT ![th] = "bi"]
            /\ arg' = [arg EXCEPT ![th] = NextId]
    /\ UNCHANGED <<is_running_, capacity_, execution_queue_, stack, destroying,
                   stopReturned, abandoned>>

try_begin_invoke(th, p) ==
    /\ CanCall(th)
    /\ IF ~is_running_
       THEN /\ pc' = [pc EXCEPT ![th] = "not_running"]
            /\ UNCHANGED <<task, arg>>
       ELSE /\ FreeIds # {}
            /\ task' = [task EXCEPT ![NextId] = NewTask("user", p)]
            /\ pc' = [pc EXCEPT ![th] = "tbi"]
            /\ arg' = [arg EXCEPT ![th] = NextId]
    /\ UNCHANGED <<is_running_, capacity_, execution_queue_, stack, destroying,
                   stopReturned, abandoned>>

\* the entry of task t has been inserted: internal_begin_invoke returns the
\* future, and invoke / ~executor go on to wait on it
Pushed(th, t) ==
    /\ execution_queue_' = Inserted(t)
    /\ task' = [task EXCEPT ![t].pushed = @ + 1, ![t].h = "valid",
                            ![t].snapQ = IF task[t].kind = "wait" THEN InQueue ELSE {}]
    /\ IF task[t].kind = "user"
       THEN /\ pc' = [pc EXCEPT ![th] = Home(th)]
            /\ arg' = [arg EXCEPT ![th] = 0]
       ELSE /\ pc' = [pc EXCEPT ![th] = "get"]
            /\ UNCHANGED arg

\* a failed try that falls through to the blocking push
TryFailed_Blocks(th, t) ==
    /\ pc' = [pc EXCEPT ![th] = "push"]
    /\ UNCHANGED <<execution_queue_, task, arg>>

\* try_push failed on a try_begin_invoke
TryFailed(th, t) ==
    /\ task' = [task EXCEPT ![t].st = "deleted", ![t].h = "invalid"]
    /\ pc' = [pc EXCEPT ![th] = Home(th)]
    /\ arg' = [arg EXCEPT ![th] = 0]
    /\ UNCHANGED execution_queue_

\* a failed try_push that has inserted the entry all the same
Overflow_Inserts(th, t) ==
    /\ execution_queue_' = Inserted(t)
    /\ task' = [task EXCEPT ![t].pushed = @ + 1]
    /\ pc' = [pc EXCEPT ![th] = "push"]
    /\ UNCHANGED arg

\* try_push failed on a begin_invoke
Overflow(th, t) ==
    /\ pc' = [pc EXCEPT ![th] = "push"]
    /\ UNCHANGED <<execution_queue_, task, arg>>

internal_try_push(th) ==
    /\ pc[th] \in {"bi", "tbi"}
    /\ IF HasSpace THEN Pushed(th, arg[th])
       ELSE IF pc[th] = "tbi" THEN TryFailed(th, arg[th])
       ELSE Overflow(th, arg[th])
    /\ UNCHANGED <<is_running_, capacity_, stack, destroying, stopReturned,
                   abandoned>>

internal_push(th) ==
    /\ pc[th] = "push"
    /\ HasSpace
    /\ Pushed(th, arg[th])
    /\ UNCHANGED <<is_running_, capacity_, stack, destroying, stopReturned,
                   abandoned>>

\* ---- invoke: stop() and wait() ----
\* is_running_ = false, written by code running on thread_
SetNotRunning ==
    /\ is_running_' = FALSE
    /\ abandoned' = abandoned \cup InQueue

\* stop() that writes is_running_ on the calling thread
stop_Direct(th) ==
    /\ CanCall(th)
    /\ SetNotRunning
    /\ stopReturned' = TRUE
    /\ UNCHANGED <<task, pc, arg>>
    /\ UNCHANGED <<capacity_, execution_queue_, stack, destroying>>

stop(th) ==
    /\ CanCall(th)
    /\ IF is_current(th)
       THEN /\ SetNotRunning
            /\ stopReturned' = TRUE
            /\ UNCHANGED <<task, pc, arg>>
       ELSE /\ UNCHANGED <<is_running_, abandoned, stopReturned>>
            /\ IF ~is_running_
               THEN /\ pc' = [pc EXCEPT ![th] = "not_running"]
                    /\ UNCHANGED <<task, arg>>
               ELSE /\ FreeIds # {}
                    /\ task' = [task EXCEPT ![NextId] = NewTask("stop", normal_priority)]
                    /\ pc' = [pc EXCEPT ![th] = "bi"]
                    /\ arg' = [arg EXCEPT ![th] = NextId]
    /\ UNCHANGED <<capacity_, execution_queue_, stack, destroying>>

\* invoke(func) that submits func and waits, whatever the calling thread
invoke_NoInline(th, o) ==
    /\ CanCall(th)
    /\ IF ~is_running_
       THEN /\ pc' = [pc EXCEPT ![th] = "not_running"]
            /\ UNCHANGED <<task, arg>>
       ELSE /\ FreeIds # {}
            /\ task' = [task EXCEPT ![NextId] = NewTask("invoke", normal_priority)]
            /\ pc' = [pc EXCEPT ![th] = "bi"]
            /\ arg' = [arg EXCEPT ![th] = NextId]
    /\ UNCHANGED <<is_running_, capacity_, execution_queue_, stack, destroying,
                   stopReturned, abandoned>>

\* invoke(func) at the default priority. On the worker thread func runs in
\* place and ends with outcome o: invoke returns its value or lets its
\* exception through. On another thread it is begin_invoke(func).get().
invoke(th, o) ==
    /\ CanCall(th)
    /\ IF is_current(th)
       THEN /\ pc' = [pc EXCEPT ![th] = IF o = "error" THEN "task_error" ELSE "invoked"]
            /\ UNCHANGED <<task, arg>>
       ELSE IF ~is_running_
       THEN /\ pc' = [pc EXCEPT ![th] = "not_running"]
            /\ UNCHANGED <<task, arg>>
       ELSE /\ FreeIds # {}
            /\ task' = [task EXCEPT ![NextId] = NewTask("invoke", normal_priority)]
            /\ pc' = [pc EXCEPT ![th] = "bi"]
            /\ arg' = [arg EXCEPT ![th] = NextId]
    /\ UNCHANGED <<is_running_, capacity_, execution_queue_, stack, destroying,
                   stopReturned, abandoned>>

\* wait() that submits its marker at the default priority
wait_Normal(th) ==
    /\ CanCall(th)
    /\ IF is_current(th)
       THEN /\ pc' = [pc EXCEPT ![th] = "invoked"]
            /\ UNCHANGED <<task, arg>>
       ELSE IF ~is_running_
       THEN /\ pc' = [pc EXCEPT ![th] = "not_running"]
            /\ UNCHANGED <<task, arg>>
       ELSE /\ FreeIds # {}
            /\ task' = [task EXCEPT ![NextId] = NewTask("wait", normal_priority)]
            /\ pc' = [pc EXCEPT ![th] = "bi"]
            /\ arg' = [arg EXCEPT ![th] = NextId]
    /\ UNCHANGED <<is_running_, capacity_, execution_queue_, stack, destroying,
                   stopReturned, abandoned>>

wait(th) ==
    /\ CanCall(th)
    /\ IF is_current(th)
       THEN /\ pc' = [pc EXCEPT ![th] = "invoked"]
            /\ UNCHANGED <<task, arg>>
       ELSE IF ~is_running_
       THEN /\ pc' = [pc EXCEPT ![th] = "not_running"]
            /\ UNCHANGED <<task, arg>>
       ELSE /\ FreeIds # {}
            /\ task' = [task EXCEPT ![NextId] = NewTask("wait", lowest_priority)]
            /\ pc' = [pc EXCEPT ![th] = "bi"]
            /\ arg' = [arg EXCEPT ![th] = NextId]
    /\ UNCHANGED <<is_running_, capacity_, execution_queue_, stack, destroying,
                   stopReturned, abandoned>>

\* a get that returns without the task being done
future_get_NoWait(c) ==
    /\ c \in Clients
    /\ pc[c] = "get"
    /\ pc' = [pc EXCEPT ![c] = IF task[arg[c]].kind = "dtor" THEN "join" ELSE "idle"]
    /\ stopReturned' = (stopReturned \/ task[arg[c]].kind = "stop")
    /\ arg' = [arg EXCEPT ![c] = 0]
    /\ UNCHANGED <<is_running_, capacity_, execution_queue_, task, stack,
                   destroying, abandoned>>

\* a get whose wait callback runs the task on the waiting thread
future_get_Inline(c) ==
    /\ c \in Clients
    /\ pc[c] = "get"
    /\ \/ /\ task[arg[c]].st = "pending"
          /\ Enter(c, arg[c], "wait")
          /\ UNCHANGED <<arg, stopReturned>>
       \/ /\ task[arg[c]].st = "done"
          /\ pc' = [pc EXCEPT ![c] = IF task[arg[c]].kind = "dtor" THEN "join"
                                     ELSE IF task[arg[c]].res = "error" THEN "task_error"
                                     ELSE "idle"]
          /\ stopReturned' = (stopReturned \/ task[arg[c]].kind = "stop")
          /\ arg' = [arg EXCEPT ![c] = 0]
          /\ UNCHANGED <<task, stack>>
    /\ UNCHANGED <<is_running_, capacity_, execution_queue_, destroying, abandoned>>

\* a client blocked in unique_future::get / wait: the wait callback does
\* nothing off the worker thread, the call returns once the task is done
future_get(c) ==
    /\ c \in Clients
    /\ pc[c] = "get"
    /\ task[arg[c]].st = "done"
    /\ pc' = [pc EXCEPT ![c] = IF task[arg[c]].kind = "dtor" THEN "join"
                               ELSE IF task[arg[c]].res = "error" THEN "task_error"
                               ELSE "idle"]
    /\ stopReturned' = (stopReturned \/ task[arg[c]].kind = "stop")
    /\ arg' = [arg EXCEPT ![c] = 0]
    /\ UNCHANGED <<is_running_, capacity_, execution_queue_, task, stack,
                   destroying, abandoned>>

\* a task body waits on the handle of task t: the wait callback runs on the
\* worker thread
wait_callback(t) ==
    /\ CanCall(W)
    /\ task[t].kind = "user"
    /\ task[t].h = "valid"
    /\ CASE task[t].st = "done" ->
              \* get() returns the stored value or rethrows the stored exception
              /\ pc' = [pc EXCEPT ![W] = IF task[t].res = "error" THEN "task_error"
                                         ELSE "body"]
              /\ UNCHANGED <<task, stack, arg>>
         [] task[t].st = "pending" ->
              /\ Enter(W, t, "wait")
              /\ UNCHANGED arg
         [] task[t].st = "started" ->
              \* task_already_started is swallowed and the wait blocks; when the
              \* packaged_task was already deleted the callback uses a dangling
              \* reference: the call blocks as well, or the process dies
              /\ \/ pc' = [pc EXCEPT ![W] = "get"]
                 \/ /\ task[t].dangling
                    /\ pc' = [th \in Threads |-> "crashed"]
              /\ UNCHANGED <<task, stack, arg>>
    /\ UNCHANGED <<is_running_, capacity_, execution_queue_, destroying, stopReturned,
                   abandoned>>

\* the call has thrown (not_running, invalid_operation, the error of a task)
\* or wait() has returned: control is back in the caller
resume(th) ==
    /\ pc[th] \in {"not_running", "invalid_operation", "invoked", "task_error"}
    /\ pc' = [pc EXCEPT ![th] = Home(th)]
    /\ UNCHANGED <<is_running_, capacity_, execution_queue_, task, arg, stack,
                   destroying, stopReturned, abandoned>>

\* ---- yield, clear, set_capacity ----
yield_Unchecked(th) ==
    /\ CanCall(th)
    /\ IF InQueue = {}
       THEN UNCHANGED <<execution_queue_, task, pc, stack>>
       ELSE \E t \in Top :
               /\ execution_queue_' = Removed(t)
               /\ prio_func(th, t, "body")
    /\ UNCHANGED <<is_running_, capacity_, arg, destroying, stopReturned, abandoned>>

yield(th) ==
    /\ CanCall(th)
    /\ IF ~is_current(th)
       THEN /\ pc' = [pc EXCEPT ![th] = "invalid_operation"]
            /\ UNCHANGED <<execution_queue_, task, stack>>
       ELSE IF InQueue = {}
       THEN UNCHANGED <<execution_queue_, task, pc, stack>>
       ELSE \E t \in Top :
               /\ execution_queue_' = Removed(t)
               /\ prio_func(th, t, "body")
    /\ UNCHANGED <<is_running_, capacity_, arg, destroying, stopReturned, abandoned>>

\* one round of the loop in clear(): a try_pop whose result is dropped
clear(th) ==
    /\ th \in Clients
    /\ CanCall(th) \/ pc[th] = "clear"
    /\ IF InQueue = {}
       THEN /\ pc' = [pc EXCEPT ![th] = Home(th)]
            /\ UNCHANGED execution_queue_
       ELSE /\ \E t \in Top : execution_queue_' = Removed(t)
            /\ pc' = [pc EXCEPT ![th] = "clear"]
    /\ UNCHANGED <<is_running_, capacity_, task, arg, stack, destroying, stopReturned,
                   abandoned>>

set_capacity(th, n) ==
    /\ th \in Clients
    /\ CanCall(th)
    /\ n # capacity_
    /\ capacity_' = n
    /\ UNCHANGED <<is_running_, execution_queue_, task, pc, arg, stack,
                   destroying, stopReturned, abandoned>>

\* ---- destruction ----
destructor(c) ==
    /\ c \in Clients
    /\ ~destroying
    /\ \A d \in Clients : pc[d] = "idle"
    /\ FreeIds # {}
    /\ destroying' = TRUE
    /\ task' = [task EXCEPT ![NextId] = NewTask("dtor", normal_priority)]
    /\ pc' = [pc EXCEPT ![c] = "bi"]
    /\ arg' = [arg EXCEPT ![c] = NextId]
    /\ UNCHANGED <<is_running_, capacity_, execution_queue_, stack, stopReturned,
                   abandoned>>

join(c) ==
    /\ c \in Clients
    /\ pc[c] = "join"
    /\ pc[W] = "exited"
    /\ pc' = [pc EXCEPT ![c] = "gone"]
    /\ UNCHANGED <<is_running_, capacity_, execution_queue_, task, arg, stack,
                   destroying, stopReturned, abandoned>>

\* ---- the system ----
Next ==
    \/ WorkerLoop
    \/ WorkerPop
    \/ TaskReturn
    \/ \E th \in Threads, p \in Priorities : begin_invoke(th, p)
    \/ \E th \in Threads, p \in Priorities : try_begin_invoke(th, p)
    \/ \E th \in Threads : internal_try_push(th)
    \/ \E th \in Threads : internal_push(th)
    \/ \E th \in Threads : stop(th)
    \/ \E th \in Threads : wait(th)
    \/ \E th \in Threads, o \in {"value", "error"} : invoke(th, o)
    \/ \E c \in Clients : future_get(c)
    \/ \E t \in TaskIds : wait_callback(t)
    \/ \E th \in Threads : resume(th)
    \/ \E th \in Threads : yield(th)
    \/ \E th \in Threads : clear(th)
    \/ \E th \in Threads, n \in CapacityValues : set_capacity(th, n)
    \/ \E c \in Clients : destructor(c)
    \/ \E c \in Clients : join(c)

Spec == Init /\ [][Next]_vars

\* every thread that can take its next step inside a call takes it, and a
\* task body that can return does
Fairness ==
    /\ WF_vars(WorkerLoop)
    /\ WF_vars(WorkerPop)
    /\ WF_vars(TaskReturn)
    /\ \A th \in Threads : /\ WF_vars(internal_try_push(th))
                           /\ WF_vars(internal_push(th))
                           /\ WF_vars(resume(th))
    /\ \A c \in Clients : /\ WF_vars(future_get(c))
                          /\ WF_vars(pc[c] = "clear" /\ clear(c))
                          /\ WF_vars(join(c))

FairSpec == Spec /\ Fairness

\* ---- properties ----
\* the worker loop or yield() removes the entry of task t in this step
Dequeue(t) == (WorkerPop \/ yield(W)) /\ execution_queue_'[t] < execution_queue_[t]

OnStack(t) == \E i \in 1..Len(stack) : stack[i].t = t

HasRun(t) == task[t].st \in {"started", "done"}

\* the entry of t was removed by clear(): t was queued, is not queued and
\* nothing has called it
Discarded(t) == task[t].st = "pending" /\ task[t].pushed > 0 /\ execution_queue_[t] = 0

\* C1: every entry the worker loop or yield() dequeues has a priority greater
\* than or equal to that of every entry in the channel at that moment.
C1_PriorityOrdering ==
    [][\A t \in TaskIds : Dequeue(t) =>
          \A u \in InQueue : task[t].priority >= task[u].priority]_vars

\* C1 witness: the worker loop dequeued a task while a task of strictly lower
\* priority stayed queued.
C1_Witness ==
    /\ stack # <<>>
    /\ stack[1].via = "queue"
    /\ \E u \in InQueue : task[u].priority < task[stack[1].t].priority

\* C2: a task's action runs at most once and its handle resolves at most once;
\* calling a task that has already started changes neither its handle nor
\* is_running_, the capacity, the other queue entries or the running bodies.
C2_AtMostOnce ==
    /\ [](\A t \in TaskIds : task[t].runs <= 1 /\ task[t].resolved <= 1)
    /\ [][\A t \in TaskIds : (Dequeue(t) /\ task[t].st # "pending") =>
             /\ task'[t].st = task[t].st
             /\ task'[t].runs = task[t].runs
             /\ task'[t].resolved = task[t].resolved
             /\ task'[t].h = task[t].h
             /\ is_running_' = is_running_
             /\ capacity_' = capacity_
             /\ stack' = stack
             /\ \A u \in TaskIds \ {t} : execution_queue_'[u] = execution_queue_[u]]_vars

\* C2 witness: a task that ran inline through a wait on the worker thread has
\* had its queue entry dequeued and called as well.
C2_Witness ==
    \E t \in TaskIds : /\ task[t].runs = 1
                       /\ task[t].pushed = 1
                       /\ execution_queue_[t] = 0
                       /\ task[t].dangling

\* C3 (as claimed): a submission made by a task body on the worker thread never
\* leaves the worker thread blocked.
C3_NoSelfDeadlock == pc[W] = "push" => HasSpace

\* C4 (as claimed): when wait() returns, every normal-priority task whose
\* begin_invoke had returned before wait() was called has completed (for a
\* wait() made by a task body: every such task other than the bodies that are
\* themselves in progress below the call).
C4_DrainBarrier ==
    [][/\ wait(W) => \A u \in Submitted : OnStack(u) \/ task[u].st = "done"
       /\ \A c \in Clients : (future_get(c) /\ task[arg[c]].kind = "wait") =>
             \A u \in task[arg[c]].snapC : task[u].st = "done"]_vars

\* C5 (as claimed): the marker of wait() is dequeued only after every task
\* that was in the channel when the marker was enqueued has run.
C5_MarkerAfterAll ==
    [][\A m \in TaskIds : (task[m].kind = "wait" /\ Dequeue(m)) =>
          \A u \in task[m].snapQ : HasRun(u)]_vars

\* C5 (amended): the marker of wait() is dequeued only after every task of a
\* priority strictly higher than lowest that was in the channel when the
\* marker was enqueued has started running or been discarded by clear().
C5_MarkerAfterHigher ==
    [][\A m \in TaskIds : (task[m].kind = "wait" /\ Dequeue(m)) =>
          \A u \in task[m].snapQ :
             task[u].priority > lowest_priority => HasRun(u) \/ Discarded(u)]_vars

\* C5 witness: a marker was dequeued that had been enqueued behind a task of
\* higher priority.
C5_Witness ==
    \E m \in TaskIds : /\ task[m].kind = "wait"
                       /\ HasRun(m)
                       /\ \E u \in task[m].snapQ : task[u].priority > lowest_priority

\* C7: a try_begin_invoke that finds the channel full returns at once with an
\* invalid handle and leaves the channel as it was; the task of an invalid
\* handle is never queued and never run.
C7_TryOnFull ==
    /\ [](\A t \in TaskIds : task[t].h = "invalid" =>
             task[t].runs = 0 /\ task[t].pushed = 0 /\ execution_queue_[t] = 0
             /\ ~OnStack(t))
    /\ [][\A th \in Threads : (pc[th] = "tbi" /\ ~HasSpace /\ internal_try_push(th)) =>
             /\ pc'[th] = Home(th)
             /\ task'[arg[th]].h = "invalid"
             /\ execution_queue_' = execution_queue_]_vars

\* C7 witness: a try_begin_invoke has returned an invalid handle.
C7_Witness == \E t \in TaskIds : task[t].h = "invalid"

\* C8: a step that does not lower the capacity keeps size() <= capacity(); a
\* begin_invoke blocked on a full channel inserts nothing while the channel is
\* full, and no task is ever inserted more than once.
C8_Backpressure ==
    /\ [][(capacity_' >= capacity_ /\ size <= capacity_) => size' <= capacity_']_vars
    /\ [](\A t \in TaskIds : task[t].pushed <= 1 /\ execution_queue_[t] <= task[t].pushed)
    /\ [][\A th \in Threads : (pc[th] = "push" /\ ~HasSpace) =>
             execution_queue_'[arg[th]] = execution_queue_[arg[th]]]_vars

\* C8 witness: a begin_invoke that found the channel full is in the blocking
\* push, a slot has since been freed, and its task is not queued yet.
C8_Witness ==
    \E th \in Threads : /\ pc[th] = "push"
                         /\ capacity_ < DefaultCapacity
                         /\ HasSpace
                         /\ task[arg[th]].pushed = 0

\* C9: once stop() has returned is_running_ is false, and every begin_invoke
\* or try_begin_invoke called from then on throws "not running" and neither
\* creates nor enqueues a task.
C9_StopReturned ==
    /\ [](stopReturned => ~is_running_)
    /\ [][\A th \in Threads, p \in Priorities :
             (stopReturned /\ (begin_invoke(th, p) \/ try_begin_invoke(th, p))) =>
                /\ pc'[th] = "not_running"
                /\ execution_queue_' = execution_queue_
                /\ task' = task]_vars

\* C9 witness: stop() has returned and a later submission has thrown.
C9_Witness == stopReturned /\ \E th \in Threads : pc[th] = "not_running"

\* C10 (as claimed): no task that was in the channel when is_running_ was
\* written false starts running afterwards.
C10_Abandoned ==
    [][\A t \in abandoned : task'[t].runs = task[t].runs]_vars

\* every task body that starts returns: the worker is outside all task bodies
\* again and again
BodiesTerminate == []<>(stack = <<>>)

Returned(t) == task[t].kind = "user" /\ task[t].h = "valid"

C11_ErrorIsolation ==
    /\ [][Finish("error") =>
             LET f == TopFrame
             IN /\ task'[f.t].res = "error"
                /\ \A u \in TaskIds \ {f.t} : task'[u] = task[u]
                /\ is_running_' = is_running_
                /\ execution_queue_' = execution_queue_
                /\ pc'[W] = IF Len(stack) = 1 THEN "loop"
                            ELSE IF f.via = "wait" THEN "task_error" ELSE "body"]_vars
    /\ [][\A t \in TaskIds : task[t].res # "none" => task'[t].res = task[t].res]_vars
    /\ [][\A th \in Threads : (pc'[th] = "task_error" /\ pc[th] # "task_error") =>
             \/ th = W /\ invoke(W, "error")
             \/ \E t \in TaskIds :
                   /\ task'[t].res = "error"
                   /\ \/ th = W /\ wait_callback(t)
                      \/ th = W /\ Finish("error") /\ TopFrame = [t |-> t, via |-> "wait"]
                      \/ th # W /\ future_get(th) /\ arg[th] = t]_vars
    /\ []((pc[W] = "pop" /\ InQueue # {}) => ENABLED WorkerPop)

\* C11 witness: after a task has ended with an error and another with a
\* value, the worker is running at the top of its loop with a task to dequeue.
C11_Witness ==
    /\ pc[W] = "pop"
    /\ is_running_
    /\ \E t, u \in TaskIds : t # u /\ task[t].res = "error" /\ task[u].res = "value"
    /\ \E v \in InQueue : task[v].st = "pending"

\* C12: yield() called from a thread other than the worker throws
\* invalid_operation and changes neither the channel nor any task; called on
\* the worker thread it removes at most one entry, one of highest priority,
\* none from an empty channel, calls at most one task, and leaves the worker
\* in a task body, never blocked.
C12_Yield ==
    [][\A th \in Threads : yield(th) =>
          IF th # W
          THEN /\ pc'[th] = "invalid_operation"
               /\ execution_queue_' = execution_queue_
               /\ task' = task
               /\ stack' = stack
          ELSE /\ size' \in {size, size - 1}
               /\ InQueue = {} => (size' = size /\ task' = task /\ stack' = stack)
               /\ \A t \in TaskIds :
                     /\ execution_queue_'[t] <= execution_queue_[t]
                     /\ execution_queue_'[t] < execution_queue_[t] =>
                           \A u \in InQueue : task[t].priority >= task[u].priority
               /\ Len(stack') \in {Len(stack), Len(stack) + 1}
               /\ SumOver([t \in TaskIds |-> task'[t].runs], TaskIds)
                     <= SumOver([t \in TaskIds |-> task[t].runs], TaskIds) + 1
               /\ pc'[W] = "body"]_vars

\* C12 witness: a task body's yield() has dequeued and started one task while
\* another entry stayed queued, and a yield() from a client thread has thrown.
C12_Witness ==
    /\ \E i \in 2..Len(stack) : stack[i].via = "queue"
    /\ InQueue # {}
    /\ \E c \in Clients : pc[c] = "invalid_operation"

\* C13 (as claimed): a begin_invoke, try_begin_invoke or invoke called on any
\* thread while is_running_ is false throws "not running", and its function
\* is neither enqueued nor executed.
C13_NotRunningRejection ==
    [][\A th \in Threads, p \in Priorities, o \in {"value", "error"} :
          (~is_running_ /\ (begin_invoke(th, p) \/ try_begin_invoke(th, p) \/ invoke(th, o))) =>
             /\ pc'[th] = "not_running"
             /\ execution_queue_' = execution_queue_
             /\ task' = task
             /\ stack' = stack]_vars

\* C14: every task action is executed by the worker thread: each start of a
\* task is a step of the worker loop, of yield() on the worker thread or of
\* a wait on the worker thread, and the bodies in progress all belong to the
\* worker thread, so no two threads are inside task bodies at once; invoke()
\* on another thread submits its function instead of running it in place.
C14_Serialized ==
    /\ [](\A t \in TaskIds : task[t].runs > 0 => task[t].by = W)
    /\ [](\A t \in TaskIds : task[t].st = "started" => OnStack(t))
    /\ [](\A c \in Clients : pc[c] # "body")
    /\ [][\A t \in TaskIds : task'[t].runs > task[t].runs =>
             (WorkerPop \/ yield(W) \/ wait_callback(t))]_vars
    /\ [][\A c \in Clients, o \in {"value", "error"} :
             invoke(c, o) => pc'[c] \in {"bi", "not_running"}]_vars

\* C14 witness: a client is blocked in get() on a task that has not started
\* while the worker thread is inside the body of another task.
C14_Witness ==
    /\ stack # <<>>
    /\ \E c \in Clients : pc[c] = "get" /\ task[arg[c]].st = "pending"

\* C15 (as claimed): a task whose queue entry was removed by clear() is never
\* executed afterwards and its handle never resolves.
C15_ClearAbandons ==
    [][\A t \in TaskIds : Discarded(t) =>
          /\ task'[t].runs = task[t].runs
          /\ task'[t].resolved = task[t].resolved]_vars

\* a client is inside invoke(func): func is submitted, or about to be, and
\* the call has not returned
InInvoke(c) ==
    /\ pc[c] \in {"bi", "push", "get"}
    /\ task[arg[c]].kind = "invoke"

\* C16: invoke(func) on the worker thread runs func in place within the call
\* and changes neither the channel nor any task; on another thread, while
\* is_running_ is true, it creates a task for func, and the call returns only
\* from a get() on that task once the worker thread has executed it exactly
\* once, with the task's value or its error.
C16_Invoke ==
    /\ [][\A o \in {"value", "error"} : invoke(W, o) =>
             /\ execution_queue_' = execution_queue_
             /\ task' = task
             /\ stack' = stack
             /\ pc'[W] = IF o = "error" THEN "task_error" ELSE "invoked"]_vars
    /\ [][\A c \in Clients, o \in {"value", "error"} : (is_running_ /\ invoke(c, o)) =>
             /\ pc'[c] = "bi"
             /\ task'[arg'[c]].kind = "invoke"
             /\ task'[arg'[c]].st = "pending"
             /\ execution_queue_' = execution_queue_]_vars
    /\ [][\A c \in Clients : (InInvoke(c) /\ pc'[c] \notin {"bi", "push", "get", "crashed"}) =>
             LET t == arg[c]
             IN /\ future_get(c)
                /\ task[t].st = "done"
                /\ task[t].runs = 1
                /\ task[t].by = W
                /\ task[t].pushed = 1
                /\ pc'[c] = IF task[t].res = "error" THEN "task_error" ELSE "idle"]_vars

\* C16 witness: a client's invoke has returned with the error of its
\* function, and a task body on the worker thread has just run invoke's
\* function in place.
C16_Witness ==
    /\ pc[W] = "invoked"
    /\ \E c \in Clients : pc[c] = "task_error"
    /\ \E t \in TaskIds : task[t].kind = "invoke" /\ task[t].res = "error"

\* C17 (as claimed): when task bodies terminate and the worker is scheduled
\* fairly, every destructor call made from a client thread, whatever was
\* called before it and whatever is queued, ends: its shutdown task is
\* executed, is_running_ is false, the worker loop has exited and join()
\* has returned.
C17_DestructionTerminates ==
    BodiesTerminate =>
        (destroying ~> (/\ \E c \in Clients : pc[c] = "gone"
                        /\ \E t \in TaskIds : task[t].kind = "dtor" /\ task[t].st = "done"
                        /\ ~is_running_
                        /\ pc[W] = "exited"))

\* C18 (as claimed): the is_running_ test and the insertion of a submission
\* are one atomic step: no task submitted through begin_invoke,
\* try_begin_invoke or invoke is inserted into the channel while is_running_
\* is false.
C18_NoInsertAfterStop ==
    [][\A t \in TaskIds :
          (execution_queue_'[t] > execution_queue_[t] /\ task[t].kind # "dtor") =>
             is_running_]_vars

\* C19: is_running_ is true until code running on the worker thread writes it
\* false (the task of stop() or of the destructor, or stop() called by a task
\* body), and is never true again; the worker loop leaves only after reading
\* is_running_ = false, and from then on it stays out: it dequeues nothing
\* and starts no task.
C19_Lifecycle ==
    /\ [](~is_running_ =>
             \/ stopReturned
             \/ \E t \in TaskIds : /\ task[t].kind \in {"stop", "dtor"}
                                    /\ task[t].st = "done"
                                    /\ task[t].by = W)
    /\ [][~is_running_ => ~is_running_']_vars
    /\ [][(is_running_ /\ ~is_running_') =>
             /\ pc[W] = "body"
             /\ TaskReturn \/ stop(W)]_vars
    /\ [][(pc[W] # "exited" /\ pc'[W] = "exited") => (~is_running_ /\ WorkerLoop)]_vars
    /\ [][pc[W] = "exited" =>
             /\ pc'[W] = "exited"
             /\ stack' = stack
             /\ \A t \in TaskIds :
                   /\ task'[t].runs = task[t].runs
                   /\ execution_queue_'[t] < execution_queue_[t] => \E c \in Clients : clear(c)]_vars

\* C19 witness: the worker loop has left after reading is_running_ = false
\* and a task that has not run is still queued.
C19_Witness ==
    /\ pc[W] = "exited"
    /\ ~is_running_
    /\ \E t \in InQueue : task[t].st = "pending"

\* C20 (as claimed): every entry in the channel belongs to a task whose
\* action has not been executed.
C20_EntriesLive == \A t \in InQueue : task[t].runs = 0

\* C20 (amended): every entry in the channel belongs to a task that has not
\* been executed or that was executed in place through a wait on the worker
\* thread, the only start of a task that leaves its entry queued; an entry
\* removed by the worker loop or by yield() results in one execution when
\* its task had not started and in none otherwise, and runs no other task.
C20_EntriesLiveOrInline ==
    /\ [](\A t \in InQueue :
             /\ execution_queue_[t] = 1
             /\ task[t].st \in {"pending", "started", "done"}
             /\ task[t].st # "pending" => (task[t].runs = 1 /\ task[t].by = W)
             /\ task[t].st = "started" =>
                   \E i \in 1..Len(stack) : stack[i] = [t |-> t, via |-> "wait"])
    /\ [][\A t \in TaskIds :
             (task[t].st = "pending" /\ task'[t].st # "pending" /\ execution_queue_'[t] > 0) =>
                wait_callback(t)]_vars
    /\ [][\A t \in TaskIds : Dequeue(t) =>
             /\ task'[t].runs = 1
             /\ task'[t].runs - task[t].runs = IF task[t].st = "pending" THEN 1 ELSE 0
             /\ \A u \in TaskIds \ {t} : task'[u].runs = task[u].runs]_vars

\* C20 witness: the entry of a task that was executed in place and is done
\* is still in the channel.
C20_Witness == \E t \in InQueue : task[t].st = "done" /\ task[t].resolved = 1

====
